---- MODULE Spec2Model ----
(***************************************************************************)
(* const-str-join (src/src/lib.rs): joining &'static str fragments with a  *)
(* separator into a fixed-size byte buffer.                                *)
(*                                                                         *)
(* Strings and buffers are sequences of bytes (0..255).  The code indexes  *)
(* from 0; the counters below keep the code's 0-based values and the       *)
(* sequences are read at counter + 1.                                      *)
(*                                                                         *)
(* A panic (a failed assert!, an out-of-bounds index, the utf8 panic!) is  *)
(* the terminal control state "aborted", with the reason in `panic`.       *)
(*                                                                         *)
(* Three specifications:                                                   *)
(*   Spec        one joined_array! evaluation, with SIZE computed by       *)
(*               concated_size or given by the caller (three-argument      *)
(*               form, any length);                                        *)
(*   SpecCopy    copy_bytes called directly, any number of times at any    *)
(*               offset, on one initially zero buffer;                     *)
(*   SpecNested  declare_joined_str!, then a second declare_joined_str!    *)
(*               that uses the first constant as a fragment.               *)
(***************************************************************************)
EXTENDS Integers, Sequences, FiniteSets

VARIABLES
    array,      \* $array / inputs: the fragments
    sepArg,     \* $sep as given to the macro and to concated_size
    size,       \* $size / SIZE / ARRAY_LEN
    auto,       \* TRUE when SIZE was computed by concated_size (lines 102, 137)
    sep,        \* the Option<&str> handed to join_strings: <<>> is None, <<s>> is Some(s)
    buffer,     \* buffer / output / dest
    pc,         \* control state
    n,          \* join_strings: n
    op,         \* join_strings: op (the cursor)
    src,        \* copy_bytes: src
    offset,     \* copy_bytes: offset
    i,          \* copy_bytes: i
    cop,        \* copy_bytes: op
    ret,        \* which call of copy_bytes is running: "input", "sep" or "direct"
    result,     \* next_position, or the value a direct copy_bytes call returned
    panic,      \* why the evaluation aborted, "none" while it has not
    written,    \* history: the 0-based positions stored to since the buffer was created
    str,        \* the &'static str declare_joined_str! yields
    prev        \* <<>>, or <<r>>: an earlier declared constant used as a fragment

vars == <<array, sepArg, size, auto, sep, buffer, pc, n, op, src, offset, i,
          cop, ret, result, panic, written, str, prev>>

(***************************************************************************)
(* Bounds and input sets                                                   *)
(***************************************************************************)
MaxN == 3
MaxSize == 8
MaxBuf == 3

\* "", "A", "\0", "é"
Strs == {<<>>, <<65>>, <<0>>, <<195, 169>>}
\* "", "-", "<>"
Seps == {<<>>, <<45>>, <<60, 62>>}

Arrays == UNION {[1..k -> Strs] : k \in 0..MaxN}

Zeros(k) == [j \in 1..k |-> 0]

(***************************************************************************)
(* concated_size                                                           *)
(***************************************************************************)
RECURSIVE concated_loop(_, _, _)
concated_loop(a, k, acc) ==
    IF k <= 0 THEN acc
    ELSE concated_loop(a, k - 1, acc + Len(a[k]))

concated_size_gaps(a, s) ==
    concated_loop(a, Len(a), Len(a) * Len(s))

concated_size(a, s) ==
    concated_loop(a, Len(a), (IF Len(a) = 0 THEN 0 ELSE Len(a) - 1) * Len(s))

(***************************************************************************)
(* The pieces of copy_bytes, join_strings and the macros that decide       *)
(***************************************************************************)
\* joined_array!: let sep = if sep.len() > 0 { Some(sep) } else { None };
SepOption(s) == IF Len(s) > 0 THEN <<s>> ELSE <<>>

\* join_strings: assert!(output.len() > 0);
OutputOk(output) == Len(output) > 0

\* copy_bytes: assert!(dest[op] == b'\0');
DestIsZeroUnchecked(dest, p) == TRUE

DestIsZero(dest, p) == dest[p + 1] = 0

\* copy_bytes: the byte stored by dest[op] = src[i];
SrcByteFirst(s, k) == s[1]

SrcByte(s, k) == s[k + 1]

\* copy_bytes: op += 1;
NextOpStuck(p) == p

NextOp(p) == p + 1

\* join_strings: if n + 1 < inputs.len() && let Some(sep) = sep
NeedsSeparatorAlways(k, inputs, so) == so # <<>>

NeedsSeparator(k, inputs, so) == k + 1 < Len(inputs) /\ so # <<>>

\* joined_array!: assert!(next_position == ARRAY_LEN);
PositionOkAtMost(next_position, len) == next_position <= len

PositionOk(next_position, len) == next_position = len

\* declare_joined_str!: core::str::from_utf8(&STORAGE) is Ok.  The validator
\* covers one-byte (00..7F) and two-byte (C2..DF 80..BF) sequences; every other
\* lead byte is rejected.
RECURSIVE Utf8Valid(_)
Utf8Valid(b) ==
    IF b = <<>> THEN TRUE
    ELSE IF b[1] < 128 THEN Utf8Valid(Tail(b))
    ELSE IF b[1] >= 194 /\ b[1] <= 223 /\ Len(b) >= 2 /\ b[2] >= 128 /\ b[2] <= 191
         THEN Utf8Valid(Tail(Tail(b)))
    ELSE FALSE

(***************************************************************************)
(* Control transfer                                                        *)
(***************************************************************************)
macroVars == <<array, sepArg, size, auto, sep, str, prev>>
copyVars == <<src, offset, i, cop, ret>>

Abort(reason) ==
    /\ pc' = "aborted"
    /\ panic' = reason

\* copy_bytes returns v to the call named r
Return(r, v) ==
    /\ pc' = CASE r = "input" -> "after_input"
               [] r = "sep" -> "after_sep"
               [] OTHER -> "idle"
    /\ op' = IF r = "direct" THEN op ELSE v
    /\ result' = IF r = "direct" THEN v ELSE result

\* copy_bytes(s, &mut buffer, off) is entered from the call named r:
\* let mut i = 0; let mut op = offset; if !src.is_empty() { loop ... } op
CallCopyBytes(s, off, r) ==
    /\ src' = s
    /\ offset' = off
    /\ i' = 0
    /\ cop' = off
    /\ ret' = r
    /\ panic' = panic
    /\ IF s = <<>>
       THEN Return(r, off)
       ELSE /\ pc' = "copy_bytes"
            /\ UNCHANGED <<op, result>>

(***************************************************************************)
(* copy_bytes: one turn of the loop                                        *)
(***************************************************************************)
CopyByte ==
    /\ pc = "copy_bytes"
    /\ UNCHANGED <<macroVars, n, src, offset, ret>>
    /\ IF cop >= Len(buffer)
       THEN /\ Abort("index")
            /\ UNCHANGED <<buffer, written, i, cop, op, result>>
       ELSE IF ~DestIsZero(buffer, cop)
       THEN /\ Abort("assert_zero")
            /\ UNCHANGED <<buffer, written, i, cop, op, result>>
       ELSE /\ buffer' = [buffer EXCEPT ![cop + 1] = SrcByte(src, i)]
            /\ written' = written \cup {cop}
            /\ cop' = NextOp(cop)
            /\ i' = i + 1
            /\ panic' = panic
            /\ IF i + 1 >= Len(src)
               THEN Return(ret, NextOp(cop))
               ELSE UNCHANGED <<pc, op, result>>

(***************************************************************************)
(* join_strings                                                            *)
(***************************************************************************)
JoinStringsEntry ==
    /\ pc = "join_strings"
    /\ UNCHANGED <<macroVars, copyVars, buffer, written, result>>
    /\ IF OutputOk(buffer)
       THEN /\ n' = 0
            /\ op' = 0
            /\ pc' = "copy_input"
            /\ panic' = panic
       ELSE /\ Abort("assert_len")
            /\ UNCHANGED <<n, op>>

\* op = copy_bytes(&inputs[n].as_bytes(), &mut output, op);
CopyInput ==
    /\ pc = "copy_input"
    /\ UNCHANGED <<macroVars, buffer, written, n>>
    /\ IF n >= Len(array)
       THEN /\ Abort("index")
            /\ UNCHANGED <<copyVars, op, result>>
       ELSE CallCopyBytes(array[n + 1], op, "input")

\* if n + 1 < inputs.len() && let Some(sep) = sep { op = copy_bytes(s, ..., op); }
CopySeparator ==
    /\ pc = "after_input"
    /\ UNCHANGED <<macroVars, buffer, written, n>>
    /\ IF NeedsSeparator(n, array, sep)
       THEN CallCopyBytes(sep[1], op, "sep")
       ELSE /\ pc' = "after_sep"
            /\ UNCHANGED <<copyVars, op, result, panic>>

\* n += 1; if n >= inputs.len() { break; } ... op
NextInput ==
    /\ pc = "after_sep"
    /\ UNCHANGED <<macroVars, copyVars, buffer, written, op, panic>>
    /\ n' = n + 1
    /\ IF n + 1 >= Len(array)
       THEN /\ pc' = "returned"
            /\ result' = op
       ELSE /\ pc' = "copy_input"
            /\ result' = result

(***************************************************************************)
(* joined_array!                                                           *)
(***************************************************************************)
\* the three-argument form up to the call of join_strings
Expand(a, s, sz, computed) ==
    /\ array' = a
    /\ sepArg' = s
    /\ size' = sz
    /\ auto' = computed
    /\ sep' = SepOption(s)
    /\ buffer' = Zeros(sz)
    /\ written' = {}
    /\ pc' = "join_strings"
    /\ UNCHANGED <<copyVars, n, op, result, panic, str>>

\* joined_array!($array, $sep): SIZE = concated_size($array, $sep)
JoinedArray ==
    /\ pc = "idle"
    /\ prev' = prev
    /\ \E a \in Arrays, s \in Seps : Expand(a, s, concated_size(a, s), TRUE)

\* joined_array!($array, $sep, $size)
JoinedArraySized ==
    /\ pc = "idle"
    /\ prev' = prev
    /\ \E a \in Arrays, s \in Seps, sz \in 0..MaxSize : Expand(a, s, sz, FALSE)

\* assert!(next_position == ARRAY_LEN); buffer
CheckPosition ==
    /\ pc = "returned"
    /\ UNCHANGED <<macroVars, copyVars, buffer, written, n, op, result>>
    /\ IF PositionOk(result, size)
       THEN /\ pc' = "done"
            /\ panic' = panic
       ELSE Abort("assert_pos")

(***************************************************************************)
(* Specification of one joined_array! evaluation                           *)
(***************************************************************************)
Init ==
    /\ array = <<>>
    /\ sepArg = <<>>
    /\ size = 0
    /\ auto = FALSE
    /\ sep = <<>>
    /\ buffer = <<>>
    /\ pc = "idle"
    /\ n = 0
    /\ op = 0
    /\ src = <<>>
    /\ offset = 0
    /\ i = 0
    /\ cop = 0
    /\ ret = "none"
    /\ result = 0
    /\ panic = "none"
    /\ written = {}
    /\ str = <<>>
    /\ prev = <<>>

Next ==
    \/ JoinedArray
    \/ JoinedArraySized
    \/ JoinStringsEntry
    \/ CopyInput
    \/ CopyByte
    \/ CopySeparator
    \/ NextInput
    \/ CheckPosition

Spec == Init /\ [][Next]_vars

(***************************************************************************)
(* copy_bytes called directly (it is a pub fn) on one buffer               *)
(***************************************************************************)
InitCopy ==
    /\ array = <<>>
    /\ sepArg = <<>>
    /\ auto = FALSE
    /\ sep = <<>>
    /\ \E len \in 0..MaxBuf :
         /\ size = len
         /\ buffer = Zeros(len)
    /\ pc = "idle"
    /\ n = 0
    /\ op = 0
    /\ src = <<>>
    /\ offset = 0
    /\ i = 0
    /\ cop = 0
    /\ ret = "none"
    /\ result = 0
    /\ panic = "none"
    /\ written = {}
    /\ str = <<>>
    /\ prev = <<>>

DirectCopyBytes ==
    /\ pc = "idle"
    /\ UNCHANGED <<macroVars, buffer, written, n>>
    /\ \E s \in Strs, off \in 0..MaxBuf : CallCopyBytes(s, off, "direct")

NextCopy ==
    \/ DirectCopyBytes
    \/ CopyByte

SpecCopy == InitCopy /\ [][NextCopy]_vars

(***************************************************************************)
(* declare_joined_str!, and a declared constant used as a fragment of a    *)
(* second declare_joined_str! (tests::nested)                              *)
(***************************************************************************)
\* the other fragments of the second join: "", "<"
Wraps == {<<>>, <<60>>}

Outers == UNION {[1..k -> Wraps] : k \in 1..MaxN}

\* const SIZE = concated_size($array, $sep); joined_array!($array, $sep, SIZE)
DeclareJoinedStr ==
    /\ pc = "idle"
    /\ prev' = prev
    /\ \E a \in Arrays, s \in Seps : Expand(a, s, concated_size(a, s), TRUE)

\* the constant just declared becomes fragment `at` of the next array
DeclareNested ==
    /\ pc = "declared"
    /\ prev = <<>>
    /\ \E a \in Outers, s \in Seps :
         \E k \in DOMAIN a :
            /\ prev' = <<[array |-> array, sep |-> sepArg, str |-> str, at |-> k]>>
            /\ Expand([a EXCEPT ![k] = str], s,
                      concated_size([a EXCEPT ![k] = str], s), TRUE)

\* if let Ok(v) = core::str::from_utf8(&STORAGE) { v } else { panic!(...) }
FromUtf8 ==
    /\ pc = "done"
    /\ UNCHANGED <<array, sepArg, size, auto, sep, prev, copyVars, buffer,
                   written, n, op, result>>
    /\ IF Utf8Valid(buffer)
       THEN /\ pc' = "declared"
            /\ str' = buffer
            /\ panic' = panic
       ELSE /\ Abort("utf8")
            /\ str' = str

NextNested ==
    \/ DeclareJoinedStr
    \/ DeclareNested
    \/ JoinStringsEntry
    \/ CopyInput
    \/ CopyByte
    \/ CopySeparator
    \/ NextInput
    \/ CheckPosition
    \/ FromUtf8

SpecNested == Init /\ [][NextNested]_vars

(***************************************************************************)
(* Reference definitions used to state the properties                      *)
(***************************************************************************)
RECURSIVE SumLen(_)
SumLen(a) == IF a = <<>> THEN 0 ELSE Len(Head(a)) + SumLen(Tail(a))

Gaps(a) == IF Len(a) = 0 THEN 0 ELSE Len(a) - 1

\* fragments[0] + s + fragments[1] + s + ... + fragments[N-1]
RECURSIVE Joined(_, _)
Joined(a, s) ==
    IF a = <<>> THEN <<>>
    ELSE IF Len(a) = 1 THEN a[1]
    ELSE a[1] \o s \o Joined(Tail(a), s)

\* a with its k-th fragment replaced by the fragments of l
Splice(a, k, l) == SubSeq(a, 1, k - 1) \o l \o SubSeq(a, k + 1, Len(a))

Sized == Len(buffer) = concated_size(array, sepArg)

Started == pc # "idle"

(***************************************************************************)
(* C1: whenever SIZE was computed by concated_size, it is the sum of the   *)
(* fragments' byte lengths plus max(N-1, 0) times the separator's length;  *)
(* N = 0 gives 0, N = 1 gives the single fragment's length, and two empty  *)
(* fragments give the separator's length.                                  *)
(***************************************************************************)
C1_SizeCorrect ==
    (Started /\ auto) =>
        /\ size = SumLen(array) + Gaps(array) * Len(sepArg)
        /\ Len(array) = 0 => size = 0
        /\ Len(array) = 1 => size = Len(array[1])
        /\ (Len(array) = 2 /\ array[1] = <<>> /\ array[2] = <<>>) => size = Len(sepArg)

C1_Witness ==
    /\ Started /\ auto
    /\ array = <<<<>>, <<>>>>
    /\ sepArg = <<60, 62>>
    /\ size = 2

(***************************************************************************)
(* C2: with a zero-initialized buffer whose length is concated_size of the *)
(* same inputs, once join_strings has returned the buffer holds exactly    *)
(* the fragments in index order with the separator between consecutive     *)
(* fragments and nowhere else.                                             *)
(***************************************************************************)
C2_FillCorrect ==
    (pc \in {"returned", "done"} /\ Sized) => buffer = Joined(array, sepArg)

C2_Witness ==
    /\ pc = "returned"
    /\ array = <<<<65>>, <<0>>, <<195, 169>>>>
    /\ sepArg = <<45>>
    /\ buffer = <<65, 45, 0, 45, 195, 169>>

(***************************************************************************)
(* C3: in a fill the cursor starts at 0; a copy_bytes call moves it        *)
(* forward by exactly the length of the bytes it copied (the fragment, or  *)
(* the separator when one is due) and nothing else moves it; with a buffer *)
(* sized by concated_size the returned cursor is the buffer's length, so   *)
(* the macro's next_position == ARRAY_LEN check does not fail.             *)
(***************************************************************************)
C3_CursorState ==
    /\ (pc = "copy_input" /\ n = 0) => op = 0
    /\ (pc = "returned" /\ Sized) => result = Len(buffer)
    /\ (pc = "aborted" /\ Sized) => panic # "assert_pos"

C3_CursorStep ==
    /\ op' >= op
    /\ (pc \in {"copy_input", "copy_bytes"} /\ pc' = "after_input")
          => op' = op + Len(array[n + 1])
    /\ (pc \in {"after_input", "copy_bytes"} /\ pc' = "after_sep")
          => op' = op + (IF n + 1 < Len(array) THEN Len(sepArg) ELSE 0)
    /\ pc' \notin {"after_input", "after_sep"} => op' = op

C3_Cursor == []C3_CursorState /\ [][C3_CursorStep]_vars

C3_Witness ==
    /\ pc = "done"
    /\ auto
    /\ Len(array) = 3
    /\ result = 5
    /\ Len(buffer) = 5

C6_ZeroFragments ==
    (Started /\ auto /\ Len(array) = 0) =>
        /\ size = 0
        /\ buffer = <<>>
        /\ op = 0
        /\ pc # "aborted"

(***************************************************************************)
(* C7 as stated: when there is at least one fragment, every fragment is    *)
(* empty and no separator is written (none given, or N = 1), a buffer of   *)
(* length 0 is accepted and the fill does not abort.                       *)
(***************************************************************************)
C7_AllEmpty ==
    ( /\ Started
      /\ Len(array) > 0
      /\ \A k \in DOMAIN array : array[k] = <<>>
      /\ (sepArg = <<>> \/ Len(array) = 1)
      /\ Len(buffer) = 0 )
    => pc # "aborted"

(***************************************************************************)
(* C10: in a fill, whatever the buffer's length, a store goes to a         *)
(* position not stored to before, inside offset .. offset + len(src) - 1,  *)
(* and changes no other byte; the positions stored to are always 0 .. k-1  *)
(* for some k, so successive calls write disjoint, increasing ranges; a    *)
(* call returns offset + len(src) and an empty src stores nothing; the     *)
(* write-once assertion never fires, and with a buffer sized by            *)
(* concated_size every position has been stored to when the fill returns.  *)
(***************************************************************************)
C10_FrameState ==
    /\ written = {p \in 0..(Len(buffer) - 1) : p < Cardinality(written)}
    /\ pc = "copy_bytes" =>
          /\ cop = offset + i
          /\ i < Len(src)
          /\ written = 0..(cop - 1)
    /\ panic # "assert_zero"
    /\ (pc \in {"returned", "done"} /\ Sized) => written = 0..(Len(buffer) - 1)

C10_FrameStep ==
    /\ (Started /\ written' # written) =>
          /\ pc = "copy_bytes"
          /\ cop \notin written
          /\ cop \in offset..(offset + Len(src) - 1)
          /\ written' = written \cup {cop}
          /\ \A p \in DOMAIN buffer : p # cop + 1 => buffer'[p] = buffer[p]
    /\ (Started /\ buffer' # buffer) => written' # written
    /\ (pc = "copy_bytes" /\ pc' \in {"after_input", "after_sep"})
          => op' = offset + Len(src)
    /\ (pc \in {"copy_input", "after_input"} /\ pc' \notin {"copy_bytes", "aborted"})
          => (op' = op /\ buffer' = buffer /\ written' = written)

C10_WriteOncePerPosition == []C10_FrameState /\ [][C10_FrameStep]_vars

C10_Witness ==
    /\ pc = "returned"
    /\ Len(buffer) > concated_size(array, sepArg)
    /\ written = 0..3
    /\ buffer[5] = 0

(***************************************************************************)
(* C5: copy_bytes stores only over a zero byte.  When the destination byte *)
(* is non-zero it aborts before the store, leaving that byte and the whole *)
(* buffer as they were; when it is zero the source byte is stored there.   *)
(***************************************************************************)
C5_Step ==
    /\ (pc = "copy_bytes" /\ cop < Len(buffer)) =>
          IF buffer[cop + 1] # 0
          THEN /\ pc' = "aborted"
               /\ panic' = "assert_zero"
               /\ buffer' = buffer
          ELSE /\ pc' # "aborted"
               /\ buffer' = [buffer EXCEPT ![cop + 1] = src[i + 1]]
    /\ \A p \in DOMAIN buffer : buffer'[p] # buffer[p] => buffer[p] = 0

C5_WriteOnce == [][C5_Step]_vars

C5_Witness ==
    /\ pc = "aborted"
    /\ panic = "assert_zero"
    /\ src = <<195, 169>>
    /\ i = 1
    /\ buffer = <<0, 195, 65>>

(***************************************************************************)
(* C9 as stated: over any sequence of copy_bytes calls on one initially    *)
(* zero buffer, a call about to store to a position an earlier store went  *)
(* to aborts, whatever byte was stored there.                              *)
(***************************************************************************)
C9_DoubleWriteStep ==
    (pc = "copy_bytes" /\ cop \in written) => pc' = "aborted"

C9_DoubleWriteAborts == [][C9_DoubleWriteStep]_vars

(***************************************************************************)
(* C9 amended: a call about to store to a position an earlier store went   *)
(* to aborts exactly when the byte now at that position is non-zero; a     *)
(* position whose earlier byte was 0x00 is stored to again.  Every         *)
(* non-zero byte of the buffer is at a position stored to before.          *)
(***************************************************************************)
C9_NonZeroStep ==
    (pc = "copy_bytes" /\ cop \in written) =>
        /\ cop < Len(buffer)
        /\ pc' = "aborted" <=> buffer[cop + 1] # 0
        /\ pc' = "aborted" => buffer' = buffer

C9_NonZeroState ==
    /\ \A p \in 0..(Len(buffer) - 1) : buffer[p + 1] # 0 => p \in written
    /\ \A p \in written : p < Len(buffer)

C9_NonZeroDoubleWriteAborts == []C9_NonZeroState /\ [][C9_NonZeroStep]_vars

C9_Witness ==
    /\ pc = "aborted"
    /\ panic = "assert_zero"
    /\ cop \in written
    /\ i = 0
    /\ src = <<0>>
    /\ buffer[cop + 1] = 65

(***************************************************************************)
(* C8: when a declared constant J, the join of a list L with separator s,  *)
(* is fragment `at` of a second declaration, the second size counts J's    *)
(* full length and the second string is the join of the outer list with    *)
(* J's bytes at that position; when the second separator is s too, the     *)
(* string is the join with s of the outer list with J replaced by the      *)
(* fragments of L.                                                         *)
(***************************************************************************)
C8_Composable ==
    (pc = "declared" /\ prev # <<>>) =>
        LET r == prev[1] IN
        /\ r.array # <<>>
        /\ r.str = Joined(r.array, r.sep)
        /\ array[r.at] = r.str
        /\ size = SumLen(array) + Gaps(array) * Len(sepArg)
        /\ str = Joined(array, sepArg)
        /\ Len(str) = size
        /\ sepArg = r.sep => str = Joined(Splice(array, r.at, r.array), sepArg)

C8_Witness ==
    /\ pc = "declared"
    /\ prev # <<>>
    /\ prev[1].array = <<<<65>>, <<0>>, <<195, 169>>>>
    /\ prev[1].sep = <<45>>
    /\ prev[1].at = 2
    /\ sepArg = <<45>>
    /\ str = <<60, 45, 65, 45, 0, 45, 195, 169, 45, 60>>

====
